---- MODULE Spec2Model ----
(***************************************************************************)
(* Model of chalk-rust/src/ir/debug.rs: the Debug printers of the IR.      *)
(*                                                                         *)
(* A term is a record whose field k names its Rust type and whose field v  *)
(* names the variant of an enum.  Text is a TLA+ string; the text sink is  *)
(* a record that receives one fragment per write_str call.                 *)
(***************************************************************************)
EXTENDS Integers, Sequences, FiniteSets, TLC

VARIABLES program, term, flags, sink, result

vars == <<program, term, flags, sink, result>>

(***************************************************************************)
(* Bounds of the checked universe.                                         *)
(***************************************************************************)
MaxIndex == 1
MaxDepth == 1
MaxCounter == 1
MaxBinders == 1
MaxParams == 2
MaxFail == 9
MaxWidth == 5

None == [k |-> "None"]

(***************************************************************************)
(* The IR (declared in ir/mod.rs, consumed here).                          *)
(***************************************************************************)
ItemId(i) == [k |-> "ItemId", index |-> i]
UniverseIndex(n) == [k |-> "UniverseIndex", counter |-> n]
AssociatedType(id, name) == [k |-> "AssociatedType", trait_id |-> id, name |-> name]
TypeNameItemId(id) == [k |-> "TypeName", v |-> "ItemId", id |-> id]
TypeNameForAll(u) == [k |-> "TypeName", v |-> "ForAll", universe |-> u]
TypeNameAssociatedType(a) == [k |-> "TypeName", v |-> "AssociatedType", assoc_ty |-> a]
ParameterKindTy(n) == [k |-> "ParameterKind", v |-> "Ty", n |-> n]
ParameterKindLifetime(n) == [k |-> "ParameterKind", v |-> "Lifetime", n |-> n]
TyVar(d) == [k |-> "Ty", v |-> "Var", depth |-> d]
TyApply(a) == [k |-> "Ty", v |-> "Apply", apply |-> a]
TyProjection(p) == [k |-> "Ty", v |-> "Projection", proj |-> p]
TyForAll(q) == [k |-> "Ty", v |-> "ForAll", quantified_ty |-> q]
QuantifiedTy(n, ty) == [k |-> "QuantifiedTy", num_binders |-> n, ty |-> ty]
LifetimeVar(d) == [k |-> "Lifetime", v |-> "Var", depth |-> d]
LifetimeForAll(u) == [k |-> "Lifetime", v |-> "ForAll", universe |-> u]
ApplicationTy(name, ps) == [k |-> "ApplicationTy", name |-> name, parameters |-> ps]
TraitRef(id, ps) == [k |-> "TraitRef", trait_id |-> id, parameters |-> ps]
ProjectionTy(tr, name) == [k |-> "ProjectionTy", trait_ref |-> tr, name |-> name]
Normalize(proj, ty) == [k |-> "Normalize", projection |-> proj, ty |-> ty]
WhereClauseNormalize(n) == [k |-> "WhereClause", v |-> "Normalize", n |-> n]
WhereClauseImplemented(n) == [k |-> "WhereClause", v |-> "Implemented", n |-> n]
WhereClauseGoalNormalize(n) == [k |-> "WhereClauseGoal", v |-> "Normalize", n |-> n]
WhereClauseGoalImplemented(n) == [k |-> "WhereClauseGoal", v |-> "Implemented", n |-> n]
WhereClauseGoalUnifyTys(n) == [k |-> "WhereClauseGoal", v |-> "UnifyTys", n |-> n]
Unify(a, b) == [k |-> "Unify", a |-> a, b |-> b]
QuantifierKinds == {"ForAll", "Exists"}
BinderKinds == {"Ty", "Lifetime"}
GoalQuantified(q, pk, g) == [k |-> "Goal", v |-> "Quantified", qkind |-> q, pk |-> pk, g |-> g]
GoalImplies(wc, g) == [k |-> "Goal", v |-> "Implies", wc |-> wc, g |-> g]
GoalAnd(g1, g2) == [k |-> "Goal", v |-> "And", g1 |-> g1, g2 |-> g2]
GoalLeaf(wc) == [k |-> "Goal", v |-> "Leaf", wc |-> wc]
Program(kinds) == [k |-> "Program", type_kinds |-> kinds]

(***************************************************************************)
(* debug.rs:97 and debug.rs:116, the two helper structs of the printer.    *)
(***************************************************************************)
Angle(elems) == [k |-> "Angle", elems |-> elems]
Assignment(name, ty) == [k |-> "Assignment", name |-> name, ty |-> ty]

(***************************************************************************)
(* The text sink behind a Formatter.  writes counts the fragments it has   *)
(* accepted; the write number failAt fails (0: no write ever fails).       *)
(* late counts the writes attempted after the render had already failed.   *)
(***************************************************************************)
NewSink(f) == [buf |-> "", writes |-> 0, failAt |-> f, status |-> "Ok", late |-> 0]

IsOk(s) == s.status = "Ok"

WriteStr(s, frag) ==
    IF s.status # "Ok" THEN [s EXCEPT !.late = @ + 1]
    ELSE IF s.writes + 1 = s.failAt THEN [s EXCEPT !.status = "Err"]
    ELSE [s EXCEPT !.buf = @ \o frag, !.writes = @ + 1]

\* An out-of-bounds index unwinds the render.
Panic(s) == IF IsOk(s) THEN [s EXCEPT !.status = "Panic"] ELSE [s EXCEPT !.late = @ + 1]

\* Display of an unsigned integer and of an interned identifier.
WriteNum(s, n) == WriteStr(s, ToString(n))
WriteIdent(s, name) == WriteStr(s, name)

\* with_current_program(f): the argument f is called with, the active
\* program if there is one.
with_current_program == program

\* prog.and_then(|p| p.type_kinds.get(id))
LookupKind(prog, id) ==
    IF prog = None THEN None
    ELSE IF id.index \in DOMAIN prog.type_kinds
         THEN [k |-> "TypeKind", name |-> prog.type_kinds[id.index]]
         ELSE None

(***************************************************************************)
(* Each fmt below is the argument list of the impl's write!: the literal   *)
(* pieces of the format string and the arguments between them, in order.   *)
(* An argument is a literal piece, an unsigned integer or an identifier    *)
(* printed with {}, or a term printed with {:?}.                           *)
(***************************************************************************)
Lit(str) == [k |-> "Lit", str |-> str]
Num(n) == [k |-> "Num", n |-> n]
Ident(name) == [k |-> "Ident", name |-> name]

\* An index out of bounds, met while the arguments of a write! are built.
IndexPanic == [k |-> "IndexPanic"]

(***************************************************************************)
(* The flags of a Formatter, set by the caller's format string: # is       *)
(* alternate, then the width (0: none), the fill and the alignment, + and  *)
(* 0, and x? or X? for integers in hexadecimal.  A write! inside an impl   *)
(* starts a Formatter with the default flags, so they reach only the impl  *)
(* the caller calls, and of those only ItemId reads them.                  *)
(***************************************************************************)
DefaultFlags ==
    [alternate |-> FALSE, width |-> 0, fill |-> " ", align |-> "Unset",
     plus |-> FALSE, zero |-> FALSE, hex |-> "None"]

\* count writes of the fill character c, one write_char each.
Padding(c, count) == [i \in 1..count |-> Lit(c)]

HexDigit(d, upper) ==
    IF d < 10 THEN ToString(d)
    ELSE IF upper THEN <<"A", "B", "C", "D", "E", "F">>[d - 9]
    ELSE <<"a", "b", "c", "d", "e", "f">>[d - 9]

RECURSIVE HexDigits(_, _)
HexDigits(n, upper) ==
    IF n < 16 THEN HexDigit(n, upper)
    ELSE HexDigits(n \div 16, upper) \o HexDigit(n % 16, upper)

\* The width of the integer n under flags f before any fill: its digits,
\* the sign of + and the 0x of #.
IntegralWidth(n, f) ==
    (IF f.hex = "None" THEN Len(ToString(n)) ELSE Len(HexDigits(n, f.hex = "Upper")))
        + (IF f.plus THEN 1 ELSE 0)
        + (IF f.alternate /\ f.hex # "None" THEN Len("0x") ELSE 0)

\* pad_integral pads n with zeros: it sets the fill of the Formatter to 0
\* and its alignment to Right, and puts them back after its last write.
ZeroPadded(n, f) == f.zero /\ f.width > IntegralWidth(n, f)

\* The flags pad_integral leaves in the Formatter; ok: none of its writes
\* failed.  A failed write returns before the fill and the alignment are
\* put back.
PadIntegralFlags(n, f, ok) ==
    IF ZeroPadded(n, f) /\ ~ok THEN [f EXCEPT !.fill = "0", !.align = "Right"]
    ELSE f

\* <usize as Debug>::fmt under flags f: LowerHex or UpperHex when the flags
\* ask for it and Display otherwise, each through Formatter::pad_integral:
\* the sign and the 0x of # come first when 0 is set, and follow the fill
\* otherwise.
PadIntegral(n, f) ==
    LET buf == IF f.hex = "None" THEN Num(n) ELSE Lit(HexDigits(n, f.hex = "Upper"))
        sign == IF f.plus THEN <<Lit("+")>> ELSE <<>>
        prefix == IF f.alternate /\ f.hex # "None" THEN <<Lit("0x")>> ELSE <<>>
        width == IntegralWidth(n, f)
        pad == f.width - width
        align == IF f.align = "Unset" THEN "Right" ELSE f.align
        pre == CASE align = "Left" -> 0
                 [] align = "Right" -> pad
                 [] align = "Center" -> pad \div 2
    IN  IF f.width <= width THEN sign \o prefix \o <<buf>>
        ELSE IF f.zero THEN sign \o prefix \o Padding("0", pad) \o <<buf>>
        ELSE Padding(f.fill, pre) \o sign \o prefix \o <<buf>>
                \o Padding(f.fill, pad - pre)

\* The text a fragment writes.
FragmentText(a) == IF a.k = "Num" THEN ToString(a.n) ELSE a.str

\* The lines of str, each with the newline that ends it (split_inclusive).
RECURSIVE SplitInclusive(_, _, _)
SplitInclusive(str, from, i) ==
    IF i > Len(str)
    THEN IF from > Len(str) THEN <<>> ELSE <<SubSeq(str, from, Len(str))>>
    ELSE IF SubSeq(str, i, i) = "\n"
    THEN <<SubSeq(str, from, i)>> \o SplitInclusive(str, i + 1, i + 1)
    ELSE SplitInclusive(str, from, i + 1)

\* One line written through the PadAdapter: the indentation first when the
\* last write through it ended a line.
PadLine(line, on_newline) ==
    IF on_newline THEN <<Lit("    "), Lit(line)>> ELSE <<Lit(line)>>

EndsLine(str) == Len(str) > 0 /\ SubSeq(str, Len(str), Len(str)) = "\n"

\* The writes that reach the sink when the fragments args are written
\* through the PadAdapter of a field of a # print; on_newline is its state.
RECURSIVE PadAdapter(_, _)
PadAdapter(args, on_newline) ==
    IF args = <<>> THEN <<>>
    ELSE LET lines == SplitInclusive(FragmentText(Head(args)), 1, 1)
         IN  IF lines = <<>> THEN PadAdapter(Tail(args), on_newline)
             ELSE IF Len(lines) = 1
             THEN (IF on_newline THEN <<Lit("    ")>> ELSE <<>>) \o <<Head(args)>>
                    \o PadAdapter(Tail(args), EndsLine(lines[1]))
             ELSE PadLine(lines[1], on_newline)
                    \o PadAdapter(<<Lit(SubSeq(FragmentText(Head(args)),
                                               Len(lines[1]) + 1,
                                               Len(FragmentText(Head(args)))))>>
                                    \o Tail(args), TRUE)

\* What debug_struct("ItemId").field("index", ..) writes on one line before
\* the value of the field.
ItemIdFieldHead == <<Lit("ItemId"), Lit(" { "), Lit("index"), Lit(": ")>>

\* fmt.debug_struct("ItemId").field("index", &self.index).finish() under
\* flags f: on one line, or with # one field a line, the field written
\* through a PadAdapter that indents every line of it.
DebugStructItemId(index, f) ==
    IF f.alternate
    THEN <<Lit("ItemId"), Lit(" {\n")>>
            \o PadAdapter(<<Lit("index"), Lit(": ")>> \o PadIntegral(index, f)
                            \o <<Lit(",\n")>>, TRUE)
            \o <<Lit("}")>>
    ELSE ItemIdFieldHead \o PadIntegral(index, f) \o <<Lit(" }")>>

\* The program unwrapped instead of and_then.
ItemId_fmt_unwrap(id, f) ==
    LET prog == with_current_program
        kind == LookupKind(prog, id)
    IN  IF prog = None THEN <<IndexPanic>>
        ELSE IF kind # None THEN <<Ident(kind.name)>>
        ELSE DebugStructItemId(id.index, f)

ItemId_fmt(id, f) ==
    LET prog == with_current_program
        kind == LookupKind(prog, id)
    IN  IF kind # None THEN <<Ident(kind.name)>>
        ELSE DebugStructItemId(id.index, f)

UniverseIndex_fmt(u) == <<Lit("U"), Num(u.counter)>>

TypeName_fmt(n) ==
    CASE n.v = "ItemId" -> <<n.id>>
      [] n.v = "ForAll" -> <<Lit("!"), Num(n.universe.counter)>>
      [] n.v = "AssociatedType" -> <<n.assoc_ty>>

AssociatedType_fmt(a) ==
    <<Lit("("), a.trait_id, Lit("::"), Ident(a.name), Lit(")")>>

ParameterKind_fmt(p) ==
    CASE p.v = "Ty" -> <<p.n>>
      [] p.v = "Lifetime" -> <<p.n>>

Ty_fmt(t) ==
    CASE t.v = "Var" -> <<Lit("?"), Num(t.depth)>>
      [] t.v = "Apply" -> <<t.apply>>
      [] t.v = "Projection" -> <<t.proj>>
      [] t.v = "ForAll" -> <<t.quantified_ty>>

QuantifiedTy_fmt(q) == <<Lit("for<"), Num(q.num_binders), Lit("> "), q.ty>>

Lifetime_fmt(l) ==
    CASE l.v = "Var" -> <<Lit("'?"), Num(l.depth)>>
      [] l.v = "ForAll" -> <<Lit("'!"), Num(l.universe.counter)>>

ApplicationTy_fmt(a) == <<a.name, Angle(a.parameters)>>

\* The brackets given the whole parameter list.
TraitRef_fmt_whole(t) ==
    IF Len(t.parameters) = 0 THEN <<IndexPanic>>
    ELSE <<t.parameters[1], Lit(" as "), t.trait_id, Angle(t.parameters)>>

\* Self read with parameters.get(0), so that an empty list prints no Self.
TraitRef_fmt_get(t) ==
    IF Len(t.parameters) = 0 THEN <<Lit(" as "), t.trait_id>>
    ELSE <<t.parameters[1], Lit(" as "), t.trait_id, Angle(Tail(t.parameters))>>

\* self.parameters[0] and &self.parameters[1..] are evaluated before the
\* first write; both are out of bounds on an empty list.
TraitRef_fmt(t) ==
    IF Len(t.parameters) = 0 THEN <<IndexPanic>>
    ELSE <<t.parameters[1], Lit(" as "), t.trait_id, Angle(Tail(t.parameters))>>

ProjectionTy_fmt(p) == <<Lit("<"), p.trait_ref, Lit(">::"), Ident(p.name)>>

\* One turn of the loop over self.0.iter().enumerate().
AngleElem(index, elem) == [k |-> "AngleElem", index |-> index, elem |-> elem]
\* The loop with index >= 0 for index > 0.
AngleElem_fmt_sep(e) ==
    IF e.index >= 0 THEN <<Lit(", "), e.elem>> ELSE <<e.elem>>

AngleElem_fmt(e) ==
    IF e.index > 0 THEN <<Lit(", "), e.elem>> ELSE <<e.elem>>

Angle_fmt(a) ==
    IF Len(a.elems) > 0
    THEN <<Lit("<")>>
            \o [i \in 1..Len(a.elems) |-> AngleElem(i - 1, a.elems[i])]
            \o <<Lit(">")>>
    ELSE <<>>

Assignment_fmt(a) == <<Ident(a.name), Lit(" = "), a.ty>>

\* The argument list built without skip(1).
NormalizeArgsNoSkip(n) ==
    n.projection.trait_ref.parameters
        \o <<Assignment(n.projection.name, n.ty)>>

\* parameters.iter().skip(1) ... .chain(Some(assign)).collect()
NormalizeArgs(n) ==
    LET ps == n.projection.trait_ref.parameters
    IN  (IF Len(ps) > 0 THEN Tail(ps) ELSE <<>>)
            \o <<Assignment(n.projection.name, n.ty)>>

Normalize_fmt(n) ==
    LET args == NormalizeArgs(n)
        tr == n.projection.trait_ref
    IN  IF Len(tr.parameters) = 0 THEN <<IndexPanic>>
        ELSE <<tr.parameters[1], Lit(": "), tr.trait_id, Angle(args)>>

WhereClause_fmt(w) ==
    CASE w.v = "Normalize" -> <<w.n>>
      [] w.v = "Implemented" ->
            IF Len(w.n.parameters) = 0 THEN <<IndexPanic>>
            ELSE <<w.n.parameters[1], Lit(": "), w.n.trait_id,
                   Angle(Tail(w.n.parameters))>>

\* Implemented printed with the whole parameter list in the brackets.
WhereClauseGoal_fmt_whole(w) ==
    CASE w.v = "Normalize" -> <<w.n>>
      [] w.v = "Implemented" ->
            IF Len(w.n.parameters) = 0 THEN <<IndexPanic>>
            ELSE <<w.n.parameters[1], Lit(": "), w.n.trait_id, Angle(w.n.parameters)>>
      [] w.v = "UnifyTys" -> <<w.n>>

WhereClauseGoal_fmt(w) ==
    CASE w.v = "Normalize" -> <<w.n>>
      [] w.v = "Implemented" ->
            IF Len(w.n.parameters) = 0 THEN <<IndexPanic>>
            ELSE <<w.n.parameters[1], Lit(": "), w.n.trait_id,
                   Angle(Tail(w.n.parameters))>>
      [] w.v = "UnifyTys" -> <<w.n>>

Unify_fmt(u) == <<Lit("("), u.a, Lit(" = "), u.b, Lit(")")>>

\* #[derive(Debug)] on the field-less enum QuantifierKind
QuantifierKind(q) == [k |-> "QuantifierKind", v |-> q]
QuantifierKind_fmt(q) == <<Lit(q.v)>>

\* And printed without its separator.
Goal_fmt_nosep(g) ==
    CASE g.v = "Quantified" /\ g.pk = "Ty" ->
            <<QuantifierKind(g.qkind), Lit("<type> { "), g.g, Lit(" }")>>
      [] g.v = "Quantified" /\ g.pk = "Lifetime" ->
            <<QuantifierKind(g.qkind), Lit("<type> { "), g.g, Lit(" }")>>
      [] g.v = "Implies" -> <<Lit("if ("), g.wc, Lit(") { "), g.g, Lit(" }")>>
      [] g.v = "And" -> <<Lit("("), g.g1, g.g2, Lit(")")>>
      [] g.v = "Leaf" -> <<g.wc>>

Goal_fmt(g) ==
    CASE g.v = "Quantified" /\ g.pk = "Ty" ->
            <<QuantifierKind(g.qkind), Lit("<type> { "), g.g, Lit(" }")>>
      [] g.v = "Quantified" /\ g.pk = "Lifetime" ->
            <<QuantifierKind(g.qkind), Lit("<type> { "), g.g, Lit(" }")>>
      [] g.v = "Implies" -> <<Lit("if ("), g.wc, Lit(") { "), g.g, Lit(" }")>>
      [] g.v = "And" -> <<Lit("("), g.g1, Lit(", "), g.g2, Lit(")")>>
      [] g.v = "Leaf" -> <<g.wc>>

\* {:?} on an argument of a write!: the Debug impl of its type, given a
\* Formatter with the default flags.
Debug_fmt(x) ==
    CASE x.k = "ItemId" -> ItemId_fmt(x, DefaultFlags)
      [] x.k = "UniverseIndex" -> UniverseIndex_fmt(x)
      [] x.k = "TypeName" -> TypeName_fmt(x)
      [] x.k = "AssociatedType" -> AssociatedType_fmt(x)
      [] x.k = "ParameterKind" -> ParameterKind_fmt(x)
      [] x.k = "Ty" -> Ty_fmt(x)
      [] x.k = "QuantifiedTy" -> QuantifiedTy_fmt(x)
      [] x.k = "Lifetime" -> Lifetime_fmt(x)
      [] x.k = "ApplicationTy" -> ApplicationTy_fmt(x)
      [] x.k = "TraitRef" -> TraitRef_fmt(x)
      [] x.k = "ProjectionTy" -> ProjectionTy_fmt(x)
      [] x.k = "Angle" -> Angle_fmt(x)
      [] x.k = "AngleElem" -> AngleElem_fmt(x)
      [] x.k = "Assignment" -> Assignment_fmt(x)
      [] x.k = "Normalize" -> Normalize_fmt(x)
      [] x.k = "WhereClause" -> WhereClause_fmt(x)
      [] x.k = "WhereClauseGoal" -> WhereClauseGoal_fmt(x)
      [] x.k = "Unify" -> Unify_fmt(x)
      [] x.k = "QuantifierKind" -> QuantifierKind_fmt(x)
      [] x.k = "Goal" -> Goal_fmt(x)

\* write! with the result of each write dropped.
RECURSIVE write_unchecked(_, _)
write_unchecked(s, args) ==
    IF args = <<>> THEN s
    ELSE LET a == Head(args)
             s1 == CASE a.k = "Lit" -> WriteStr(s, a.str)
                     [] a.k = "Num" -> WriteNum(s, a.n)
                     [] a.k = "Ident" -> WriteIdent(s, a.name)
                     [] a.k = "IndexPanic" -> Panic(s)
                     [] OTHER -> write_unchecked(s, Debug_fmt(a))
         IN  write_unchecked(s1, Tail(args))

\* write!(fmt, "...", args) on sink s: the pieces and arguments in order; the
\* first failure ends it (the ? after each write, and the loop of
\* core::fmt::write).
RECURSIVE write(_, _)
write(s, args) ==
    IF args = <<>> THEN s
    ELSE LET a == Head(args)
             s1 == CASE a.k = "Lit" -> WriteStr(s, a.str)
                     [] a.k = "Num" -> WriteNum(s, a.n)
                     [] a.k = "Ident" -> WriteIdent(s, a.name)
                     [] a.k = "IndexPanic" -> Panic(s)
                     [] OTHER -> write(s, Debug_fmt(a))
         IN  IF IsOk(s1) THEN write(s1, Tail(args)) ELSE s1

\* format!("{:?}", x) into sink s.
Format(x, s) == write(s, <<x>>)

\* x.fmt(fmt) for a Formatter fmt with flags f on sink s.
FormatWith(x, f, s) ==
    IF x.k = "ItemId" THEN write(s, ItemId_fmt(x, f)) ELSE write(s, Debug_fmt(x))

\* The flags of the caller's Formatter after id.fmt(fmt) into sink s, fmt
\* having flags f.  The name is written by a write!, on a Formatter of its
\* own, and the field of a # print on the copy its PadAdapter wraps; on one
\* line the index is padded on the caller's Formatter itself.
ItemId_fmt_flags(id, f, s) ==
    LET kind == LookupKind(with_current_program, id)
        head == write(s, ItemIdFieldHead)
        value == write(head, PadIntegral(id.index, f))
    IN  IF kind # None \/ f.alternate \/ ~IsOk(head) THEN f
        ELSE PadIntegralFlags(id.index, f, IsOk(value))

\* The text a sink that never fails receives for x.
Render(x) == Format(x, NewSink(0)).buf

(***************************************************************************)
(* The terms and programs the renders are checked on.                      *)
(***************************************************************************)
SeqsUpTo(S, n) == {<<>>} \cup UNION {[1..m -> S] : m \in 1..n}

Identifiers == {"Item"}
ProgramA == Program(0 :> "Vec")
ProgramB == Program((0 :> "Foo") @@ (1 :> "Bar"))
ProgramOpts == {None, ProgramA, ProgramB}

ItemIds == {ItemId(i) : i \in 0..MaxIndex}
UniverseIndexes == {UniverseIndex(n) : n \in 0..MaxCounter}
AssociatedTypes == {AssociatedType(id, name) : id \in ItemIds, name \in Identifiers}
TypeNames ==
    {TypeNameItemId(id) : id \in ItemIds}
        \cup {TypeNameForAll(u) : u \in UniverseIndexes}
        \cup {TypeNameAssociatedType(a) : a \in AssociatedTypes}
Lifetimes ==
    {LifetimeVar(d) : d \in 0..MaxDepth}
        \cup {LifetimeForAll(u) : u \in UniverseIndexes}

\* Sample types of each shape, used where a term nests another.
SelfTy == TyVar(0)
VecTy == TyApply(ApplicationTy(TypeNameItemId(ItemId(0)),
                               <<ParameterKindTy(TyVar(0)),
                                 ParameterKindLifetime(LifetimeVar(0))>>))
ProjTy == TyProjection(ProjectionTy(
              TraitRef(ItemId(1), <<ParameterKindTy(TyVar(0))>>), "Item"))
HigherTy == TyForAll(QuantifiedTy(1, TyVar(0)))
OutTy == TyApply(ApplicationTy(TypeNameItemId(ItemId(1)), <<>>))

ParamPool ==
    {ParameterKindTy(SelfTy),
     ParameterKindLifetime(LifetimeForAll(UniverseIndex(MaxCounter))),
     ParameterKindTy(VecTy),
     ParameterKindTy(ProjTy)}
ParamLists == SeqsUpTo(ParamPool, MaxParams)
AssignTys == {OutTy, VecTy}

QuantifiedTys ==
    {QuantifiedTy(n, ty) : n \in 0..MaxBinders, ty \in {SelfTy, VecTy, HigherTy}}
ApplicationTys == {ApplicationTy(n, ps) : n \in TypeNames, ps \in ParamLists}
TraitRefs == {TraitRef(id, ps) : id \in ItemIds, ps \in ParamLists}
ProjectionTys == {ProjectionTy(tr, name) : tr \in TraitRefs, name \in Identifiers}
Tys ==
    {TyVar(d) : d \in 0..MaxDepth}
        \cup {SelfTy, VecTy, ProjTy, HigherTy, OutTy}
        \cup {TyProjection(ProjectionTy(TraitRef(ItemId(0), <<>>), "Item"))}
ParameterKinds ==
    {ParameterKindTy(ty) : ty \in Tys}
        \cup {ParameterKindLifetime(l) : l \in Lifetimes}
Normalizes ==
    {Normalize(proj, ty) : proj \in ProjectionTys, ty \in AssignTys}
Angles ==
    {Angle(ps) : ps \in ParamLists}
        \cup {Angle(NormalizeArgs(n)) : n \in Normalizes}
Unifys == {Unify(a, b) : a \in {SelfTy, VecTy, ProjTy}, b \in {SelfTy, OutTy}}
WhereClauses ==
    {WhereClauseNormalize(n) : n \in Normalizes}
        \cup {WhereClauseImplemented(tr) : tr \in TraitRefs}
WhereClauseGoals ==
    {WhereClauseGoalNormalize(n) : n \in Normalizes}
        \cup {WhereClauseGoalImplemented(tr) : tr \in TraitRefs}
        \cup {WhereClauseGoalUnifyTys(u) : u \in Unifys}

SampleTraitRef == TraitRef(ItemId(0), <<ParameterKindTy(SelfTy), ParameterKindTy(VecTy)>>)
SampleNormalize == Normalize(ProjectionTy(SampleTraitRef, "Item"), OutTy)
LeafGoals ==
    {GoalLeaf(WhereClauseGoalImplemented(SampleTraitRef)),
     GoalLeaf(WhereClauseGoalUnifyTys(Unify(SelfTy, OutTy))),
     GoalLeaf(WhereClauseGoalNormalize(SampleNormalize)),
     GoalLeaf(WhereClauseGoalImplemented(TraitRef(ItemId(0), <<>>)))}
InnerGoals ==
    LeafGoals
        \cup {GoalAnd(g1, g2) : g1 \in LeafGoals, g2 \in LeafGoals}
        \cup {GoalQuantified(q, pk, g) : q \in QuantifierKinds, pk \in BinderKinds,
                                         g \in LeafGoals}
SampleWhereClauses ==
    {WhereClauseImplemented(SampleTraitRef), WhereClauseNormalize(SampleNormalize)}
Goals ==
    {GoalLeaf(w) : w \in WhereClauseGoals}
        \cup {GoalQuantified(q, pk, g) : q \in QuantifierKinds, pk \in BinderKinds,
                                         g \in InnerGoals}
        \cup {GoalImplies(w, g) : w \in SampleWhereClauses, g \in InnerGoals}
        \cup {GoalAnd(g1, g2) : g1 \in InnerGoals, g2 \in LeafGoals}

Inputs ==
    ItemIds \cup UniverseIndexes \cup TypeNames \cup AssociatedTypes
        \cup ParameterKinds \cup Tys \cup QuantifiedTys \cup Lifetimes
        \cup ApplicationTys \cup TraitRefs \cup ProjectionTys \cup Angles
        \cup Normalizes \cup WhereClauses \cup WhereClauseGoals \cup Unifys
        \cup Goals
FailAts == 0..MaxFail

\* The format strings of the callers: every combination of flags for an
\* ItemId, which reads them; {:?} and {:#5?} for the other terms.
Widths == 0..MaxWidth
Flags ==
    [alternate : BOOLEAN, width : Widths, fill : {" ", "*", "\n"},
     align : {"Unset", "Left", "Right", "Center"}, plus : BOOLEAN, zero : BOOLEAN,
     hex : {"None", "Lower", "Upper"}]
PrettyFlags == [DefaultFlags EXCEPT !.alternate = TRUE]
PrettyWideFlags == [DefaultFlags EXCEPT !.alternate = TRUE, !.width = MaxWidth]
FlagsFor(t) == IF t.k = "ItemId" THEN Flags ELSE {DefaultFlags, PrettyWideFlags}
FailAtsFor(t, f) == IF t.k = "ItemId" \/ f = DefaultFlags THEN FailAts ELSE {0}

(***************************************************************************)
(* The state: the active program, the term a caller asks to print, the     *)
(* flags of the caller's format string, the caller's sink, and the outcome *)
(* of the print into it ("None" before the call).                          *)
(***************************************************************************)
Init ==
    /\ program \in ProgramOpts
    /\ term \in Inputs
    /\ flags \in FlagsFor(term)
    /\ sink \in {NewSink(f) : f \in FailAtsFor(term, flags)}
    /\ result = "None"

\* The caller's side of one print: the sink after it, its outcome, and the
\* flags f it leaves in the caller's Formatter.
Printed(s, f) ==
    /\ result = "None"
    /\ sink' = s
    /\ result' = s.status
    /\ flags' = f
    /\ UNCHANGED <<program, term>>

ItemIdFmt ==
    /\ term.k = "ItemId"
    /\ Printed(write(sink, ItemId_fmt(term, flags)), ItemId_fmt_flags(term, flags, sink))
UniverseIndexFmt == term.k = "UniverseIndex" /\ Printed(write(sink, UniverseIndex_fmt(term)), flags)
TypeNameFmt == term.k = "TypeName" /\ Printed(write(sink, TypeName_fmt(term)), flags)
AssociatedTypeFmt == term.k = "AssociatedType" /\ Printed(write(sink, AssociatedType_fmt(term)), flags)
ParameterKindFmt == term.k = "ParameterKind" /\ Printed(write(sink, ParameterKind_fmt(term)), flags)
TyFmt == term.k = "Ty" /\ Printed(write(sink, Ty_fmt(term)), flags)
QuantifiedTyFmt == term.k = "QuantifiedTy" /\ Printed(write(sink, QuantifiedTy_fmt(term)), flags)
LifetimeFmt == term.k = "Lifetime" /\ Printed(write(sink, Lifetime_fmt(term)), flags)
ApplicationTyFmt == term.k = "ApplicationTy" /\ Printed(write(sink, ApplicationTy_fmt(term)), flags)
TraitRefFmt == term.k = "TraitRef" /\ Printed(write(sink, TraitRef_fmt(term)), flags)
ProjectionTyFmt == term.k = "ProjectionTy" /\ Printed(write(sink, ProjectionTy_fmt(term)), flags)
AngleFmt == term.k = "Angle" /\ Printed(write(sink, Angle_fmt(term)), flags)
NormalizeFmt == term.k = "Normalize" /\ Printed(write(sink, Normalize_fmt(term)), flags)
WhereClauseFmt == term.k = "WhereClause" /\ Printed(write(sink, WhereClause_fmt(term)), flags)
WhereClauseGoalFmt == term.k = "WhereClauseGoal" /\ Printed(write(sink, WhereClauseGoal_fmt(term)), flags)
UnifyFmt == term.k = "Unify" /\ Printed(write(sink, Unify_fmt(term)), flags)
GoalFmt == term.k = "Goal" /\ Printed(write(sink, Goal_fmt(term)), flags)

Fmt ==
    \/ ItemIdFmt
    \/ UniverseIndexFmt
    \/ TypeNameFmt
    \/ AssociatedTypeFmt
    \/ ParameterKindFmt
    \/ TyFmt
    \/ QuantifiedTyFmt
    \/ LifetimeFmt
    \/ ApplicationTyFmt
    \/ TraitRefFmt
    \/ ProjectionTyFmt
    \/ AngleFmt
    \/ NormalizeFmt
    \/ WhereClauseFmt
    \/ WhereClauseGoalFmt
    \/ UnifyFmt
    \/ GoalFmt

Next == Fmt

\* One print of each term, program and sink.
Spec == Init /\ [][Next]_vars

(***************************************************************************)
(* Texts the properties below compare the printed text with.               *)
(***************************************************************************)
Texts(xs) == [i \in 1..Len(xs) |-> Render(xs[i])]

RECURSIVE Join(_)
Join(texts) ==
    IF Len(texts) = 0 THEN ""
    ELSE IF Len(texts) = 1 THEN texts[1]
    ELSE texts[1] \o ", " \o Join(Tail(texts))

AngleText(texts) == IF Len(texts) = 0 THEN "" ELSE "<" \o Join(texts) \o ">"

IsPrefix(a, b) == Len(a) <= Len(b) /\ SubSeq(b, 1, Len(a)) = a

\* The number of ", " in text that lie inside exactly one pair of < >.
RECURSIVE CountSeps(_, _, _)
CountSeps(text, i, depth) ==
    IF i > Len(text) THEN 0
    ELSE LET c == SubSeq(text, i, i)
             d == IF c = "<" THEN depth + 1 ELSE IF c = ">" THEN depth - 1 ELSE depth
             here == IF depth = 1 /\ i < Len(text) /\ SubSeq(text, i, i + 1) = ", "
                     THEN 1 ELSE 0
         IN  here + CountSeps(text, i + 1, d)
TopLevelSeps(text) == CountSeps(text, 1, 0)

NormalizeText(n, sep) ==
    LET tr == n.projection.trait_ref
    IN  Render(tr.parameters[1]) \o sep \o Render(tr.trait_id)
            \o AngleText(Texts(Tail(tr.parameters))
                            \o <<n.projection.name \o " = " \o Render(n.ty)>>)

TraitRefText(tr, sep) ==
    Render(tr.parameters[1]) \o sep \o Render(tr.trait_id)
        \o Render(Angle(Tail(tr.parameters)))

IsImplemented(x) == x.k \in {"WhereClause", "WhereClauseGoal"} /\ x.v = "Implemented"

\* The trait reference a term indexes at its root, if it does.
RootTraitRef(x) ==
    CASE x.k = "TraitRef" -> x
      [] x.k = "Normalize" -> x.projection.trait_ref
      [] x.k \in {"WhereClause", "WhereClauseGoal"} /\ x.v = "Implemented" -> x.n
      [] x.k \in {"WhereClause", "WhereClauseGoal"} /\ x.v = "Normalize" ->
            x.n.projection.trait_ref
      [] OTHER -> None

OtherBinder(pk) == IF pk = "Ty" THEN "Lifetime" ELSE "Ty"

\* C1 as stated: a Normalize prints Self, " as ", the trait and the
\* bracketed arguments ending in "name = ty".
C1_NormalizeAs ==
    (term.k = "Normalize" /\ result = "Ok") => sink.buf = NormalizeText(term, " as ")

\* C1 amended: a Normalize with parameters [p0, ..., pn] prints
\* render(p0) + ": " + render(trait_id) + Angle([p1, ..., pn, A]) with A the
\* text "name = render(ty)"; with a sink that never fails the print succeeds.
C1_NormalizeColon ==
    (term.k = "Normalize" /\ result # "None"
        /\ Len(term.projection.trait_ref.parameters) > 0) =>
        /\ result = "Ok" => sink.buf = NormalizeText(term, ": ")
        /\ sink.failAt = 0 => result = "Ok"

C1_Witness ==
    /\ term = Normalize(ProjectionTy(SampleTraitRef, "Item"), OutTy)
    /\ program = ProgramB
    /\ result = "Ok"
    /\ sink.buf = "?0: Foo<Foo<?0, '?0>, Item = Bar>"

\* C2 as stated: Implemented(tr) prints the text of tr printed as a TraitRef.
C2_ImplementedAsTraitRef ==
    (IsImplemented(term) /\ result = "Ok") => sink.buf = Render(term.n)

\* C2 amended: WhereClause::Implemented(tr) and WhereClauseGoal::Implemented(tr)
\* both print render(Self) + ": " + render(trait_id) + Angle(rest), the same
\* text as each other.
C2_ImplementedColon ==
    (IsImplemented(term) /\ result = "Ok") =>
        /\ sink.buf = TraitRefText(term.n, ": ")
        /\ sink.buf = Render(WhereClauseImplemented(term.n))
        /\ sink.buf = Render(WhereClauseGoalImplemented(term.n))

C2_Witness ==
    /\ term = WhereClauseGoalImplemented(SampleTraitRef)
    /\ program = ProgramA
    /\ result = "Ok"
    /\ sink.buf = "?0: Vec<Vec<?0, '?0>>"
    /\ Render(SampleTraitRef) = "?0 as Vec<Vec<?0, '?0>>"

\* C3: a quantified goal prints kind<slot> { inner }, the slot being type
\* for a Ty binder and another label for a Lifetime binder, so that the two
\* binder kinds print different texts.
C3_BinderLabel ==
    (term.k = "Goal" /\ term.v = "Quantified" /\ result = "Ok") =>
        /\ term.pk = "Ty" =>
                sink.buf = term.qkind \o "<type> { " \o Render(term.g) \o " }"
        /\ sink.buf # Render(GoalQuantified(term.qkind, OtherBinder(term.pk), term.g))

\* C4: Angle(S) prints nothing iff S is empty; otherwise "<", the elements
\* in order joined by len(S) - 1 top-level ", ", and ">".
C4_Angle ==
    (term.k = "Angle" /\ result = "Ok") =>
        /\ sink.buf = "" <=> Len(term.elems) = 0
        /\ sink.buf = AngleText(Texts(term.elems))
        /\ Len(term.elems) > 0 =>
            /\ SubSeq(sink.buf, 1, 1) = "<"
            /\ SubSeq(sink.buf, Len(sink.buf), Len(sink.buf)) = ">"
            /\ TopLevelSeps(sink.buf) = Len(term.elems) - 1

C4_Witness ==
    /\ term = Angle(<<ParameterKindTy(VecTy), ParameterKindTy(ProjTy)>>)
    /\ program = ProgramB
    /\ result = "Ok"
    /\ sink.buf = "<Foo<?0, '?0>, <?0 as Bar>::Item>"
    /\ TopLevelSeps(sink.buf) = 1

\* C5: a TraitRef with parameters [p0, ..., pn] prints
\* render(p0) + " as " + render(trait_id) + Angle([p1..pn]), and with Self
\* alone no brackets of its own.
C5_TraitRef ==
    (term.k = "TraitRef" /\ result = "Ok") =>
        /\ sink.buf = Render(term.parameters[1]) \o " as " \o Render(term.trait_id)
                        \o AngleText(Texts(Tail(term.parameters)))
        /\ Len(term.parameters) = 1 =>
                sink.buf = Render(term.parameters[1]) \o " as " \o Render(term.trait_id)

C5_Witness ==
    /\ term = SampleTraitRef
    /\ program = None
    /\ result = "Ok"
    /\ sink.buf = "?0 as ItemId { index: 0 }<ItemId { index: 0 }<?0, '?0>>"

\* c repeated count times.
RECURSIVE Repeat(_, _)
Repeat(c, count) == IF count <= 0 THEN "" ELSE c \o Repeat(c, count - 1)

\* The text of the index n under flags f: the digits, in the base the flags
\* ask for, signed and prefixed, and filled to the width.
IndexText(n, f) ==
    LET digits == IF f.hex = "None" THEN ToString(n) ELSE HexDigits(n, f.hex = "Upper")
        head == (IF f.plus THEN "+" ELSE "")
                    \o (IF f.alternate /\ f.hex # "None" THEN "0x" ELSE "")
        missing == f.width - Len(head) - Len(digits)
        left == IF f.align = "Left" THEN 0
                ELSE IF f.align = "Center" THEN missing \div 2
                ELSE missing
    IN  IF f.zero THEN head \o Repeat("0", missing) \o digits
        ELSE Repeat(f.fill, left) \o head \o digits \o Repeat(f.fill, missing - left)

\* str with every line of it indented.
RECURSIVE Indented(_, _)
Indented(str, i) ==
    IF i > Len(str) THEN ""
    ELSE (IF i = 1 \/ SubSeq(str, i - 1, i - 1) = "\n" THEN "    " ELSE "")
            \o SubSeq(str, i, i) \o Indented(str, i + 1)

\* The structural form of the ItemId of index n under flags f.
ItemIdText(n, f) ==
    IF f.alternate
    THEN "ItemId {\n" \o Indented("index: " \o IndexText(n, f) \o ",\n", 1) \o "}"
    ELSE "ItemId { index: " \o IndexText(n, f) \o " }"

\* C6: an ItemId prints its declared name, whatever the flags of the print,
\* iff a program is active and knows the id, and otherwise the structural
\* form of its index: ItemId { index: N } for a {:?} print, and the same
\* structure laid out as the flags ask for any other; printing without a
\* program is no failure.
C6_ItemId ==
    (term.k = "ItemId" /\ result # "None") =>
        /\ result \in {"Ok", "Err"}
        /\ sink.failAt = 0 => result = "Ok"
        /\ result = "Ok" =>
            IF program # None /\ term.index \in DOMAIN program.type_kinds
            THEN sink.buf = program.type_kinds[term.index]
            ELSE /\ sink.buf = ItemIdText(term.index, flags)
                 /\ flags = DefaultFlags =>
                        sink.buf = "ItemId { index: " \o ToString(term.index) \o " }"

C6_Witness ==
    /\ term = ItemId(1)
    /\ program = ProgramA
    /\ flags = PrettyFlags
    /\ result = "Ok"
    /\ sink.writes = 8
    /\ sink.buf = "ItemId {\n    index: 1,\n}"

\* C7: a failed write ends the print with the error and nothing is written
\* after it; when no write fails the print runs to its end.
C7_SinkFailure ==
    result # "None" =>
        LET full == FormatWith(term, flags, NewSink(0))
            fails == sink.failAt >= 1 /\ sink.failAt <= full.writes
        IN  /\ sink.late = 0
            /\ fails => /\ result = "Err"
                        /\ sink.writes = sink.failAt - 1
                        /\ IsPrefix(sink.buf, full.buf)
            /\ ~fails => /\ result = full.status
                         /\ sink.buf = full.buf
                         /\ sink.writes = full.writes

C7_Witness ==
    /\ term = GoalAnd(GoalLeaf(WhereClauseGoalImplemented(SampleTraitRef)),
                      GoalLeaf(WhereClauseGoalUnifyTys(Unify(SelfTy, OutTy))))
    /\ program = ProgramA
    /\ sink.failAt = 9
    /\ result = "Err"
    /\ sink.buf = "(?0: Vec<Vec<"

\* C8: And(g1, g2) prints "(" + render(g1) + ", " + render(g2) + ")" and
\* Leaf(wc) prints render(wc); And(Leaf(Implemented(tr)), Leaf(UnifyTys(u)))
\* prints "(" + the Implemented form of tr + ", (" a " = " b "))".
C8_Goal ==
    (term.k = "Goal" /\ result = "Ok") =>
        /\ term.v = "And" =>
            sink.buf = "(" \o Render(term.g1) \o ", " \o Render(term.g2) \o ")"
        /\ term.v = "Leaf" => sink.buf = Render(term.wc)
        /\ (/\ term.v = "And"
            /\ term.g1.v = "Leaf" /\ term.g1.wc.v = "Implemented"
            /\ term.g2.v = "Leaf" /\ term.g2.wc.v = "UnifyTys") =>
            sink.buf = "(" \o Render(WhereClauseGoalImplemented(term.g1.wc.n))
                         \o ", (" \o Render(term.g2.wc.n.a) \o " = "
                         \o Render(term.g2.wc.n.b) \o "))"

C8_Witness ==
    /\ term = GoalAnd(GoalLeaf(WhereClauseGoalImplemented(SampleTraitRef)),
                      GoalLeaf(WhereClauseGoalUnifyTys(Unify(SelfTy, OutTy))))
    /\ program = ProgramB
    /\ result = "Ok"
    /\ sink.buf = "(?0: Foo<Foo<?0, '?0>>, (?0 = Bar))"

\* C10: printing a term whose trait reference has no parameters panics,
\* with no error result, no success and nothing written by the print.
C10_EmptyParameters ==
    (/\ result # "None"
     /\ RootTraitRef(term) # None
     /\ Len(RootTraitRef(term).parameters) = 0) =>
        /\ result = "Panic"
        /\ sink.buf = ""
        /\ sink.writes = 0

C10_Witness ==
    /\ term = WhereClauseNormalize(
                  Normalize(ProjectionTy(TraitRef(ItemId(0), <<>>), "Item"), OutTy))
    /\ sink.failAt = 1
    /\ result = "Panic"
    /\ sink.buf = ""

====
